---- MODULE Spec2Model ----
(***************************************************************************)
(* State-machine model of the contracts of rust-blockchain.                *)
(*                                                                         *)
(* SimpleDex (src/src/dex.rs) is an ink! contract.  Balance is an unsigned *)
(* integer (u128 in ink!); the model keeps the type but narrows it to      *)
(* 0..MaxBalance.  ink! contracts are built with overflow checks, so an    *)
(* arithmetic overflow, an underflow, a division by zero and a failed      *)
(* assert! all panic; a panic traps the message and the storage is left as *)
(* it was before the call.  Every message is one atomic action that either *)
(* commits all its writes or reverts with the kind of the panic.           *)
(***************************************************************************)
EXTENDS Integers, FiniteSets, Sequences, TLC

\* ---------------------------------------------------------------------------
\* Bounds
\* ---------------------------------------------------------------------------

\* Largest value of the (narrowed) Balance type; stands for u128::MAX.
MaxBalance == 6

\* Largest amount an external caller passes to a message.
MaxAmount == 2

\* Largest block number the chain reaches (u64 in ink!).
MaxBlock == 2

\* Longest list of candidates a Voting contract is deployed with.
MaxCandidates == 2

\* The accounts that call the contracts (AccountId).
Accounts == {"alice", "bob"}

\* Recorded as the caller of a message that never reads env().caller().
NoCaller == "-"

Balance == 0..MaxBalance

Amounts == 0..MaxAmount

\* ---------------------------------------------------------------------------
\* SimpleDex: storage (dex.rs:12-20) and the outcome of the latest call
\* ---------------------------------------------------------------------------
VARIABLES
    token_a_balance,      \* Balance
    token_b_balance,      \* Balance
    total_liquidity,      \* Balance
    liquidity_providers,  \* Mapping<AccountId, Balance>, absent key = 0
    dex_call              \* the latest call: message, caller, arguments, outcome

dexvars == <<token_a_balance, token_b_balance, total_liquidity,
             liquidity_providers, dex_call>>

\* ---------------------------------------------------------------------------
\* MarketMaker: storage (market-making.rs:10-15) and the latest call
\* ---------------------------------------------------------------------------
\* owner (market-making.rs:11) is written by the constructor and read by no
\* message; the constructor's caller is kept in mm_call only.
VARIABLES
    eth_reserve,     \* Balance
    token_reserve,   \* Balance
    token_balances,  \* HashMap<AccountId, Balance>, absent key read as 0
    mm_call          \* the latest call: message, caller, inputs, outcome,
                     \* ETH paid out, event emitted, steps in source order

mmvars == <<eth_reserve, token_reserve, token_balances, mm_call>>

\* The contract that a specification does not run is not deployed.
MMNotDeployed ==
    /\ eth_reserve = 0
    /\ token_reserve = 0
    /\ token_balances = [x \in Accounts |-> 0]
    /\ mm_call = [op |-> "none"]

DexNotDeployed ==
    /\ token_a_balance = 0
    /\ token_b_balance = 0
    /\ total_liquidity = 0
    /\ liquidity_providers = [x \in Accounts |-> 0]
    /\ dex_call = [op |-> "none"]

\* ---------------------------------------------------------------------------
\* Betting: storage (bet.rs:26-35), the contract's native balance, the
\* transfers it has made, and the latest call
\* ---------------------------------------------------------------------------
VARIABLES
    betting_owner,    \* owner: AccountId
    bets,             \* StorageHashMap<AccountId, Bet>; NoBet = absent key
    total_amount,     \* Balance
    option1_amount,   \* Balance
    option2_amount,   \* Balance
    betting_open,     \* bool
    winner,           \* Option<BetOption>: "None", "Option1", "Option2"
    betting_balance,  \* env().balance(): the value received minus the value paid
    paid_amount,      \* per account: value env().transfer() has moved to it
    paid_times,       \* per account: number of transfers made to it
    bet_call          \* the latest call: message, caller, outcome

betvars == <<betting_owner, bets, total_amount, option1_amount, option2_amount,
             betting_open, winner, betting_balance, paid_amount, paid_times,
             bet_call>>

BettingNotDeployed ==
    /\ betting_owner = 0
    /\ bets = 0
    /\ total_amount = 0
    /\ option1_amount = 0
    /\ option2_amount = 0
    /\ betting_open = 0
    /\ winner = 0
    /\ betting_balance = 0
    /\ paid_amount = 0
    /\ paid_times = 0
    /\ bet_call = 0

\* ---------------------------------------------------------------------------
\* Escrow: storage (escrow.rs:10-18) and the latest call
\* ---------------------------------------------------------------------------
VARIABLES
    buyer,        \* AccountId
    seller,       \* AccountId
    arbiter,      \* AccountId
    escrow_amount,  \* amount: Balance
    is_funded,    \* bool
    is_released,  \* bool
    escrow_call   \* the latest call: message, caller, outcome, transfer, event

escrowvars == <<buyer, seller, arbiter, escrow_amount, is_funded, is_released,
                escrow_call>>

EscrowNotDeployed ==
    /\ buyer = 0
    /\ seller = 0
    /\ arbiter = 0
    /\ escrow_amount = 0
    /\ is_funded = 0
    /\ is_released = 0
    /\ escrow_call = 0

\* ---------------------------------------------------------------------------
\* Farming: storage (farming.rs:20-25), the chain's block number, and the
\* latest call
\* ---------------------------------------------------------------------------
VARIABLES
    total_staked,  \* Balance
    reward_rate,   \* Balance
    stakers,       \* StorageHashMap<AccountId, StakeInfo>; NoStake = absent key
    block_number,  \* env().block_number() of the latest call
    farming_call   \* the latest call: message, caller, argument, outcome

farmingvars == <<total_staked, reward_rate, stakers, block_number, farming_call>>

FarmingNotDeployed ==
    /\ total_staked = 0
    /\ reward_rate = 0
    /\ stakers = 0
    /\ block_number = 0
    /\ farming_call = 0

\* ---------------------------------------------------------------------------
\* Voting: storage (voting.rs:6-11) and the latest call
\* ---------------------------------------------------------------------------
VARIABLES
    candidates,   \* Vec<String>
    votes,        \* Mapping<String, u32>, absent key read as 0
    has_voted,    \* Mapping<AccountId, bool>, absent key read as false
    voting_call   \* the latest call: caller, candidate, outcome

votingvars == <<candidates, votes, has_voted, voting_call>>

VotingNotDeployed ==
    /\ candidates = 0
    /\ votes = 0
    /\ has_voted = 0
    /\ voting_call = 0

\* ---------------------------------------------------------------------------
\* TokenContract: fields (main.rs:22-30) and the latest call
\* ---------------------------------------------------------------------------
\* name and symbol are read by get_token_info only; owner is the constant
\* "owner" (main.rs:44).  events is an append-only log that no operation
\* reads back: the event a call pushed is kept in token_call.
VARIABLES
    total_supply,     \* u64
    balances,         \* HashMap<String, u64>, absent key read as 0
    allowances,       \* HashMap<String, HashMap<String, u64>>, absent = 0
    overflow_checks,  \* the build: TRUE panics on overflow, FALSE wraps
    token_call        \* the latest call: operation, arguments, outcome, event

tokenvars == <<total_supply, balances, allowances, overflow_checks, token_call>>

TokenNotDeployed ==
    /\ total_supply = 0
    /\ balances = 0
    /\ allowances = 0
    /\ overflow_checks = 0
    /\ token_call = 0

\* Every variable of the module; each specification runs one contract and
\* leaves the others as they are.
vars == <<dexvars, mmvars, betvars, escrowvars, farmingvars, votingvars, tokenvars>>

NotDex == <<mmvars, betvars, escrowvars, farmingvars, votingvars, tokenvars>>

NotMM == <<dexvars, betvars, escrowvars, farmingvars, votingvars, tokenvars>>

NotBetting == <<dexvars, mmvars, escrowvars, farmingvars, votingvars, tokenvars>>

NotEscrow == <<dexvars, mmvars, betvars, farmingvars, votingvars, tokenvars>>

NotFarming == <<dexvars, mmvars, betvars, escrowvars, votingvars, tokenvars>>

NotVoting == <<dexvars, mmvars, betvars, escrowvars, farmingvars, tokenvars>>

NotToken == <<dexvars, mmvars, betvars, escrowvars, farmingvars, votingvars>>

\* Outcome of a Balance computation: the value, or the panic that stopped it.
Ok(v) == [err |-> "none", val |-> v]

Panic(kind) == [err |-> kind, val |-> 0]

\* a + b on Balance with overflow checks
checked_add(a, b) == IF a + b > MaxBalance THEN Panic("Overflow") ELSE Ok(a + b)

\* a - b on Balance with overflow checks
checked_sub(a, b) == IF a < b THEN Panic("Overflow") ELSE Ok(a - b)

\* a * b on Balance with overflow checks
checked_mul(a, b) == IF a * b > MaxBalance THEN Panic("Overflow") ELSE Ok(a * b)

\* a / b on Balance: integer division, panics on a zero divisor
checked_div(a, b) == IF b = 0 THEN Panic("DivideByZero") ELSE Ok(a \div b)

\* The first panic of a sequence of computations, in evaluation order.
RECURSIVE FirstPanic(_)
FirstPanic(rs) ==
    IF rs = <<>> THEN "none"
    ELSE IF Head(rs).err # "none" THEN Head(rs).err
    ELSE FirstPanic(Tail(rs))

\* Mutant: the larger of the two amounts.
calculate_liquidity_max(amount_a, amount_b) ==
    IF amount_a = 0 \/ amount_b = 0 THEN 0
    ELSE IF amount_a < amount_b THEN amount_b ELSE amount_a

\* dex.rs:91-99
calculate_liquidity(amount_a, amount_b) ==
    IF amount_a = 0 \/ amount_b = 0 THEN 0
    ELSE IF amount_a < amount_b THEN amount_a ELSE amount_b

\* Mutant: divides by the reserve before the deposit (pays out too much).
get_amount_out_old_reserve(amount_in, reserve_in, reserve_out) ==
    LET num == checked_mul(amount_in, reserve_out)
        den == Ok(reserve_in)
    IN  IF num.err # "none" THEN num
        ELSE IF den.err # "none" THEN den
        ELSE checked_div(num.val, den.val)

\* Mutant: the product wraps modulo the width instead of panicking.
get_amount_out_wrapping(amount_in, reserve_in, reserve_out) ==
    LET num == Ok((amount_in * reserve_out) % (MaxBalance + 1))
        den == checked_add(reserve_in, amount_in)
    IN  IF num.err # "none" THEN num
        ELSE IF den.err # "none" THEN den
        ELSE checked_div(num.val, den.val)

\* dex.rs:84-88: (amount_in * reserve_out) / (reserve_in + amount_in)
get_amount_out(amount_in, reserve_in, reserve_out) ==
    LET num == checked_mul(amount_in, reserve_out)
        den == checked_add(reserve_in, amount_in)
    IN  IF num.err # "none" THEN num
        ELSE IF den.err # "none" THEN den
        ELSE checked_div(num.val, den.val)

\* A message that ran to its end: the storage is written, the value returned.
DexCommit(op, caller, arg1, arg2, a, b, total, providers, ret1, ret2) ==
    /\ token_a_balance' = a
    /\ token_b_balance' = b
    /\ total_liquidity' = total
    /\ liquidity_providers' = providers
    /\ UNCHANGED NotDex
    /\ dex_call' = [op |-> op, caller |-> caller, arg1 |-> arg1, arg2 |-> arg2,
                    err |-> "none", ret1 |-> ret1, ret2 |-> ret2]

\* A message that panicked: the call traps and the storage is as before.
DexRevert(op, caller, arg1, arg2, kind) ==
    /\ UNCHANGED <<token_a_balance, token_b_balance, total_liquidity,
                   liquidity_providers>>
    /\ UNCHANGED NotDex
    /\ dex_call' = [op |-> op, caller |-> caller, arg1 |-> arg1, arg2 |-> arg2,
                    err |-> kind, ret1 |-> 0, ret2 |-> 0]

\* dex.rs:24-35: the state after the constructor
SimpleDex_new(caller, initial_a, initial_b) ==
    LET liquidity == calculate_liquidity(initial_a, initial_b)
    IN  /\ token_a_balance = initial_a
        /\ token_b_balance = initial_b
        /\ total_liquidity = liquidity
        /\ liquidity_providers = [x \in Accounts |-> IF x = caller THEN liquidity ELSE 0]
        /\ dex_call = [op |-> "new", caller |-> caller, arg1 |-> initial_a,
                       arg2 |-> initial_b, err |-> "none", ret1 |-> 0, ret2 |-> 0]

\* Mutant: the minted shares are credited to the caller but not to the total.
SimpleDex_add_liquidity_no_total(caller, amount_a, amount_b) ==
    LET liquidity_minted == calculate_liquidity(amount_a, amount_b)
        user_liquidity == liquidity_providers[caller]
        new_a == checked_add(token_a_balance, amount_a)
        new_b == checked_add(token_b_balance, amount_b)
        new_user == checked_add(user_liquidity, liquidity_minted)
        panic == FirstPanic(<<new_a, new_b, new_user>>)
    IN  IF panic # "none"
        THEN DexRevert("add_liquidity", caller, amount_a, amount_b, panic)
        ELSE DexCommit("add_liquidity", caller, amount_a, amount_b,
                       new_a.val, new_b.val, total_liquidity,
                       [liquidity_providers EXCEPT ![caller] = new_user.val],
                       liquidity_minted, 0)

\* dex.rs:39-48
SimpleDex_add_liquidity(caller, amount_a, amount_b) ==
    LET liquidity_minted == calculate_liquidity(amount_a, amount_b)
        user_liquidity == liquidity_providers[caller]
        new_a == checked_add(token_a_balance, amount_a)
        new_b == checked_add(token_b_balance, amount_b)
        new_total == checked_add(total_liquidity, liquidity_minted)
        new_user == checked_add(user_liquidity, liquidity_minted)
        panic == FirstPanic(<<new_a, new_b, new_total, new_user>>)
    IN  IF panic # "none"
        THEN DexRevert("add_liquidity", caller, amount_a, amount_b, panic)
        ELSE DexCommit("add_liquidity", caller, amount_a, amount_b,
                       new_a.val, new_b.val, new_total.val,
                       [liquidity_providers EXCEPT ![caller] = new_user.val],
                       liquidity_minted, 0)

\* Mutant: amount_b is computed from the reserve of token A.
SimpleDex_remove_liquidity_same_reserve(caller, liquidity) ==
    LET user_liquidity == liquidity_providers[caller]
        mul_a == checked_mul(liquidity, token_a_balance)
        amount_a == IF mul_a.err # "none" THEN mul_a
                    ELSE checked_div(mul_a.val, total_liquidity)
        mul_b == checked_mul(liquidity, token_a_balance)
        amount_b == IF mul_b.err # "none" THEN mul_b
                    ELSE checked_div(mul_b.val, total_liquidity)
        new_a == checked_sub(token_a_balance, amount_a.val)
        new_b == checked_sub(token_b_balance, amount_b.val)
        new_total == checked_sub(total_liquidity, liquidity)
        new_user == checked_sub(user_liquidity, liquidity)
        panic == FirstPanic(<<amount_a, amount_b, new_a, new_b, new_total, new_user>>)
    IN  IF ~(user_liquidity >= liquidity)
        THEN DexRevert("remove_liquidity", caller, liquidity, 0, "InsufficientLiquidity")
        ELSE IF panic # "none"
        THEN DexRevert("remove_liquidity", caller, liquidity, 0, panic)
        ELSE DexCommit("remove_liquidity", caller, liquidity, 0,
                       new_a.val, new_b.val, new_total.val,
                       [liquidity_providers EXCEPT ![caller] = new_user.val],
                       amount_a.val, amount_b.val)

\* Mutant: the assert compares the total, not the caller's own shares.
SimpleDex_remove_liquidity_total_check(caller, liquidity) ==
    LET user_liquidity == liquidity_providers[caller]
        mul_a == checked_mul(liquidity, token_a_balance)
        amount_a == IF mul_a.err # "none" THEN mul_a
                    ELSE checked_div(mul_a.val, total_liquidity)
        mul_b == checked_mul(liquidity, token_b_balance)
        amount_b == IF mul_b.err # "none" THEN mul_b
                    ELSE checked_div(mul_b.val, total_liquidity)
        new_a == checked_sub(token_a_balance, amount_a.val)
        new_b == checked_sub(token_b_balance, amount_b.val)
        new_total == checked_sub(total_liquidity, liquidity)
        new_user == checked_sub(user_liquidity, liquidity)
        panic == FirstPanic(<<amount_a, amount_b, new_a, new_b, new_total, new_user>>)
    IN  IF ~(total_liquidity >= liquidity)
        THEN DexRevert("remove_liquidity", caller, liquidity, 0, "InsufficientLiquidity")
        ELSE IF panic # "none"
        THEN DexRevert("remove_liquidity", caller, liquidity, 0, panic)
        ELSE DexCommit("remove_liquidity", caller, liquidity, 0,
                       new_a.val, new_b.val, new_total.val,
                       [liquidity_providers EXCEPT ![caller] = new_user.val],
                       amount_a.val, amount_b.val)

\* dex.rs:52-63
SimpleDex_remove_liquidity(caller, liquidity) ==
    LET user_liquidity == liquidity_providers[caller]
        mul_a == checked_mul(liquidity, token_a_balance)
        amount_a == IF mul_a.err # "none" THEN mul_a
                    ELSE checked_div(mul_a.val, total_liquidity)
        mul_b == checked_mul(liquidity, token_b_balance)
        amount_b == IF mul_b.err # "none" THEN mul_b
                    ELSE checked_div(mul_b.val, total_liquidity)
        new_a == checked_sub(token_a_balance, amount_a.val)
        new_b == checked_sub(token_b_balance, amount_b.val)
        new_total == checked_sub(total_liquidity, liquidity)
        new_user == checked_sub(user_liquidity, liquidity)
        panic == FirstPanic(<<amount_a, amount_b, new_a, new_b, new_total, new_user>>)
    IN  IF ~(user_liquidity >= liquidity)
        THEN DexRevert("remove_liquidity", caller, liquidity, 0, "InsufficientLiquidity")
        ELSE IF panic # "none"
        THEN DexRevert("remove_liquidity", caller, liquidity, 0, panic)
        ELSE DexCommit("remove_liquidity", caller, liquidity, 0,
                       new_a.val, new_b.val, new_total.val,
                       [liquidity_providers EXCEPT ![caller] = new_user.val],
                       amount_a.val, amount_b.val)

\* Mutant: the swap also books its input as liquidity.
SimpleDex_swap_a_for_b_mints(amount_a) ==
    LET amount_b == get_amount_out(amount_a, token_a_balance, token_b_balance)
        new_a == checked_add(token_a_balance, amount_a)
        new_b == checked_sub(token_b_balance, amount_b.val)
        new_total == checked_add(total_liquidity, amount_a)
        panic == FirstPanic(<<amount_b, new_a, new_b, new_total>>)
    IN  IF panic # "none"
        THEN DexRevert("swap_a_for_b", NoCaller, amount_a, 0, panic)
        ELSE DexCommit("swap_a_for_b", NoCaller, amount_a, 0,
                       new_a.val, new_b.val, new_total.val, liquidity_providers,
                       amount_b.val, 0)

\* dex.rs:67-72
SimpleDex_swap_a_for_b(amount_a) ==
    LET amount_b == get_amount_out(amount_a, token_a_balance, token_b_balance)
        new_a == checked_add(token_a_balance, amount_a)
        new_b == checked_sub(token_b_balance, amount_b.val)
        panic == FirstPanic(<<amount_b, new_a, new_b>>)
    IN  IF panic # "none"
        THEN DexRevert("swap_a_for_b", NoCaller, amount_a, 0, panic)
        ELSE DexCommit("swap_a_for_b", NoCaller, amount_a, 0,
                       new_a.val, new_b.val, total_liquidity, liquidity_providers,
                       amount_b.val, 0)

\* dex.rs:76-81
SimpleDex_swap_b_for_a(amount_b) ==
    LET amount_a == get_amount_out(amount_b, token_b_balance, token_a_balance)
        new_b == checked_add(token_b_balance, amount_b)
        new_a == checked_sub(token_a_balance, amount_a.val)
        panic == FirstPanic(<<amount_a, new_b, new_a>>)
    IN  IF panic # "none"
        THEN DexRevert("swap_b_for_a", NoCaller, amount_b, 0, panic)
        ELSE DexCommit("swap_b_for_a", NoCaller, amount_b, 0,
                       new_a.val, new_b.val, total_liquidity, liquidity_providers,
                       amount_a.val, 0)

DexInit ==
    /\ MMNotDeployed
    /\ BettingNotDeployed
    /\ EscrowNotDeployed
    /\ FarmingNotDeployed
    /\ VotingNotDeployed
    /\ TokenNotDeployed
    /\ \E caller \in Accounts, initial_a \in Amounts, initial_b \in Amounts :
           SimpleDex_new(caller, initial_a, initial_b)

DexNext ==
    \/ \E caller \in Accounts, amount_a \in Amounts, amount_b \in Amounts :
           SimpleDex_add_liquidity(caller, amount_a, amount_b)
    \/ \E caller \in Accounts, liquidity \in Amounts :
           SimpleDex_remove_liquidity(caller, liquidity)
    \/ \E amount_a \in Amounts :
           SimpleDex_swap_a_for_b(amount_a)
    \/ \E amount_b \in Amounts :
           SimpleDex_swap_b_for_a(amount_b)

SpecDex == DexInit /\ [][DexNext]_vars

\* ---------------------------------------------------------------------------
\* SimpleDex: properties
\* ---------------------------------------------------------------------------

\* The sum of f over the set S.
RECURSIVE SumOver(_, _)
SumOver(f, S) ==
    IF S = {} THEN 0
    ELSE LET x == CHOOSE y \in S : TRUE
         IN  f[x] + SumOver(f, S \ {x})

DexPoolUnchanged ==
    UNCHANGED <<token_a_balance, token_b_balance, total_liquidity, liquidity_providers>>

\* The panics that an arithmetic failure shows as.
ArithmeticError == {"Overflow", "DivideByZero"}

\* The step is a call of message op (its record is the new dex_call).
DexStep(op) == dex_call'.op = op

\* The reserve a swap pays into, and the one it pays out of, before the step.
ReserveIn(op) == IF op = "swap_a_for_b" THEN token_a_balance ELSE token_b_balance

ReserveOut(op) == IF op = "swap_a_for_b" THEN token_b_balance ELSE token_a_balance

Swaps == {"swap_a_for_b", "swap_b_for_a"}

\* C1: in every reachable state total_liquidity is the sum of the shares of
\* all accounts.
C1_TotalIsSumOfShares ==
    total_liquidity = SumOver(liquidity_providers, Accounts)

\* C1 witness: two providers hold shares after a successful withdrawal.
C1_Witness ==
    /\ \A x \in Accounts : liquidity_providers[x] > 0
    /\ dex_call.op = "remove_liquidity"
    /\ dex_call.err = "none"
    /\ dex_call.arg1 > 0

\* C2: a successful swap of a positive amount never lowers
\* token_a_balance * token_b_balance.
C2_ProductNonDecreasing ==
    [][\A op \in Swaps :
          (DexStep(op) /\ dex_call'.err = "none" /\ dex_call'.arg1 > 0)
          => token_a_balance' * token_b_balance' >= token_a_balance * token_b_balance
      ]_dexvars

\* C2 witness: a swap that paid out and left the product strictly larger
\* (the reserves before the swap are recomputed from the call record).
C2_Witness ==
    /\ dex_call.op = "swap_a_for_b"
    /\ dex_call.err = "none"
    /\ dex_call.arg1 > 0
    /\ dex_call.ret1 > 0
    /\ token_a_balance * token_b_balance
         > (token_a_balance - dex_call.arg1) * (token_b_balance + dex_call.ret1)

\* C3 (as claimed): a swap called while one of the reserves is 0 fails with an
\* arithmetic error and leaves the pool unchanged.
C3_ZeroReserveSwapFails ==
    [][\A op \in Swaps :
          (DexStep(op) /\ (ReserveIn(op) = 0 \/ ReserveOut(op) = 0))
          => (dex_call'.err \in ArithmeticError /\ DexPoolUnchanged)
      ]_dexvars

\* C4: a successful swap of a positive amount on a pool with both reserves
\* positive returns strictly less than the output reserve and leaves both
\* reserves positive.
C4_OutputBelowReserve ==
    [][\A op \in Swaps :
          (/\ DexStep(op)
           /\ dex_call'.err = "none"
           /\ dex_call'.arg1 > 0
           /\ token_a_balance > 0
           /\ token_b_balance > 0)
          => (/\ dex_call'.ret1 < ReserveOut(op)
              /\ token_a_balance' > 0
              /\ token_b_balance' > 0)
      ]_dexvars

\* C4 witness: a swap of a positive amount on a funded pool has paid out.
C4_Witness ==
    /\ dex_call.op = "swap_b_for_a"
    /\ dex_call.err = "none"
    /\ dex_call.arg1 > 0
    /\ dex_call.ret1 > 0
    /\ token_b_balance - dex_call.arg1 > 0
    /\ token_a_balance > 0

\* C5 (as claimed): add_liquidity with a zero amount fails and leaves the
\* pool unchanged.
C5_ZeroAmountRejected ==
    [][(DexStep("add_liquidity") /\ (dex_call'.arg1 = 0 \/ dex_call'.arg2 = 0))
          => (dex_call'.err # "none" /\ DexPoolUnchanged)
      ]_dexvars

\* C6: remove_liquidity of more shares than the caller owns fails on the
\* assert and leaves the pool unchanged; a successful remove_liquidity takes
\* no more than the caller owns; no share balance is negative.
C6_InsufficientSharesRejected ==
    [][/\ DexStep("remove_liquidity")
            => LET p == dex_call'.caller
                   shares == dex_call'.arg1
               IN  /\ shares > liquidity_providers[p]
                        => (dex_call'.err = "InsufficientLiquidity" /\ DexPoolUnchanged)
                   /\ dex_call'.err = "none"
                        => (/\ shares <= liquidity_providers[p]
                            /\ liquidity_providers'[p] = liquidity_providers[p] - shares)
       /\ \A x \in Accounts : liquidity_providers'[x] >= 0
      ]_dexvars

\* C6 witness: a withdrawal was rejected although the pool as a whole held
\* enough shares.
C6_Witness ==
    /\ dex_call.op = "remove_liquidity"
    /\ dex_call.err = "InsufficientLiquidity"
    /\ dex_call.arg1 > liquidity_providers[dex_call.caller]
    /\ dex_call.arg1 <= total_liquidity

\* C7 (as claimed): remove_liquidity on a pool without shares fails on the
\* share check, whatever the argument, and leaves the pool unchanged.
C7_NoSharesRejected ==
    [][(DexStep("remove_liquidity") /\ total_liquidity = 0)
          => (dex_call'.err = "InsufficientLiquidity" /\ DexPoolUnchanged)
      ]_dexvars

\* The latest call is a successful deposit of two positive amounts.
DepositJustMade ==
    /\ dex_call.op = "add_liquidity"
    /\ dex_call.err = "none"
    /\ dex_call.arg1 > 0
    /\ dex_call.arg2 > 0

\* The step withdraws, for the depositor, exactly the shares just minted.
WithdrawsTheDeposit ==
    /\ DexStep("remove_liquidity")
    /\ dex_call'.caller = dex_call.caller
    /\ dex_call'.arg1 = dex_call.ret1

\* The withdrawal gives back the deposit and undoes it.
DepositReturned ==
    /\ dex_call'.err = "none"
    /\ dex_call'.ret1 = dex_call.arg1
    /\ dex_call'.ret2 = dex_call.arg2
    /\ token_a_balance' = token_a_balance - dex_call.arg1
    /\ token_b_balance' = token_b_balance - dex_call.arg2
    /\ total_liquidity' = total_liquidity - dex_call.ret1
    /\ liquidity_providers'[dex_call.caller]
         = liquidity_providers[dex_call.caller] - dex_call.ret1

FirstDepositJustMade ==
    /\ DepositJustMade
    /\ token_a_balance = dex_call.arg1
    /\ token_b_balance = dex_call.arg2
    /\ total_liquidity = dex_call.ret1

\* Both products of the withdrawal of `shares` fit in Balance.
WithdrawalFits(shares) ==
    /\ shares * token_a_balance <= MaxBalance
    /\ shares * token_b_balance <= MaxBalance

C9_ProportionalMint ==
    [][(/\ DexStep("add_liquidity")
        /\ dex_call'.err = "none"
        /\ dex_call'.arg1 > 0
        /\ dex_call'.arg2 > 0
        /\ total_liquidity > 0
        /\ token_a_balance > 0)
          => LET minted == (dex_call'.arg1 * total_liquidity) \div token_a_balance
                 p == dex_call'.caller
             IN  /\ dex_call'.ret1 = minted
                 /\ total_liquidity' = total_liquidity + minted
                 /\ liquidity_providers'[p] = liquidity_providers[p] + minted
      ]_dexvars

\* C10: on an empty pool add_liquidity(a, b) with a, b > 0 succeeds, mints
\* min(a, b) shares to the caller, and leaves total_liquidity > 0 and the
\* reserves (a, b).
C10_FirstDeposit ==
    [][(/\ DexStep("add_liquidity")
        /\ dex_call'.arg1 > 0
        /\ dex_call'.arg2 > 0
        /\ token_a_balance = 0
        /\ token_b_balance = 0
        /\ total_liquidity = 0)
          => LET a == dex_call'.arg1
                 b == dex_call'.arg2
                 p == dex_call'.caller
                 min == IF a <= b THEN a ELSE b
             IN  /\ dex_call'.err = "none"
                 /\ dex_call'.ret1 = min
                 /\ liquidity_providers'[p] = liquidity_providers[p] + min
                 /\ \A x \in Accounts \ {p} :
                        liquidity_providers'[x] = liquidity_providers[x]
                 /\ total_liquidity' = min
                 /\ total_liquidity' > 0
                 /\ token_a_balance' = a
                 /\ token_b_balance' = b
      ]_dexvars

\* C10 witness: a first deposit of unequal amounts has minted the smaller one.
C10_Witness ==
    /\ dex_call.op = "add_liquidity"
    /\ dex_call.err = "none"
    /\ dex_call.arg1 > dex_call.arg2
    /\ dex_call.arg2 > 0
    /\ token_a_balance = dex_call.arg1
    /\ token_b_balance = dex_call.arg2
    /\ total_liquidity = dex_call.arg2
    /\ liquidity_providers[dex_call.caller] = dex_call.arg2

\* C11: a successful remove_liquidity(shares) returns
\* (floor(shares * reserveA / total), floor(shares * reserveB / total)) of the
\* values before the call, takes the returned amounts out of the reserves and
\* takes shares out of the total and out of the caller's shares; at 500 of
\* 1000 shares on reserves (1100, 910) the formula gives (550, 455).
C11_RemoveLiquidityAmounts ==
    [][(DexStep("remove_liquidity") /\ dex_call'.err = "none")
          => LET p == dex_call'.caller
                 shares == dex_call'.arg1
                 amount_a == (shares * token_a_balance) \div total_liquidity
                 amount_b == (shares * token_b_balance) \div total_liquidity
             IN  /\ total_liquidity > 0
                 /\ dex_call'.ret1 = amount_a
                 /\ dex_call'.ret2 = amount_b
                 /\ token_a_balance' = token_a_balance - amount_a
                 /\ token_b_balance' = token_b_balance - amount_b
                 /\ total_liquidity' = total_liquidity - shares
                 /\ liquidity_providers'[p] = liquidity_providers[p] - shares
                 /\ \A x \in Accounts \ {p} :
                        liquidity_providers'[x] = liquidity_providers[x]
                 /\ (500 * 1100) \div 1000 = 550
                 /\ (500 * 910) \div 1000 = 455
      ]_dexvars

\* C11 witness: a partial withdrawal paid out of both reserves and the
\* division for token A left a remainder in the pool.
C11_Witness ==
    /\ dex_call.op = "remove_liquidity"
    /\ dex_call.err = "none"
    /\ dex_call.arg1 > 0
    /\ dex_call.ret1 > 0
    /\ dex_call.ret2 > 0
    /\ total_liquidity > 0
    /\ (dex_call.arg1 * (token_a_balance + dex_call.ret1))
         % (total_liquidity + dex_call.arg1) # 0

\* C12: a successful swap of amount_in > 0 returns
\* floor(amount_in * reserveOut / (reserveIn + amount_in)) of the reserves
\* before the call, adds amount_in to the input reserve and takes the result
\* out of the output reserve, in either direction; at amount_in 100 on
\* reserves (1000, 1000) the formula gives 90 and reserves (1100, 910).
C12_SwapAmounts ==
    [][\A op \in Swaps :
          (DexStep(op) /\ dex_call'.err = "none" /\ dex_call'.arg1 > 0)
          => LET amount_in == dex_call'.arg1
                 amount_out == (amount_in * ReserveOut(op))
                                  \div (ReserveIn(op) + amount_in)
             IN  /\ dex_call'.ret1 = amount_out
                 /\ ReserveIn(op)' = ReserveIn(op) + amount_in
                 /\ ReserveOut(op)' = ReserveOut(op) - amount_out
                 /\ (100 * 1000) \div (1000 + 100) = 90
                 /\ 1000 - (100 * 1000) \div (1000 + 100) = 910
      ]_dexvars

\* C12 witness: a swap of token B for token A paid out, and the division
\* left a remainder in the pool.
C12_Witness ==
    /\ dex_call.op = "swap_b_for_a"
    /\ dex_call.err = "none"
    /\ dex_call.arg1 > 0
    /\ dex_call.ret1 > 0
    /\ (dex_call.arg1 * (token_a_balance + dex_call.ret1)) % token_b_balance # 0

\* C13: in every reachable state, total_liquidity > 0 implies that both
\* reserves are positive.
C13_SharesImplyReserves ==
    total_liquidity > 0 => (token_a_balance > 0 /\ token_b_balance > 0)

\* C13 witness: shares are outstanding after a swap that paid out.
C13_Witness ==
    /\ total_liquidity > 0
    /\ dex_call.op \in Swaps
    /\ dex_call.err = "none"
    /\ dex_call.ret1 > 0

\* C14 (as claimed): in every reachable state, total_liquidity = 0 implies
\* that both reserves are 0.
C14_NoSharesNoReserves ==
    total_liquidity = 0 => (token_a_balance = 0 /\ token_b_balance = 0)

\* The product that the step's message computes first does not fit in Balance.
ProductOverflows ==
    \/ \E op \in Swaps : DexStep(op) /\ dex_call'.arg1 * ReserveOut(op) > MaxBalance
    \/ /\ DexStep("remove_liquidity")
       /\ \/ dex_call'.arg1 * token_a_balance > MaxBalance
          \/ dex_call'.arg1 * token_b_balance > MaxBalance

\* C20 (as claimed): a swap whose amount_in * reserveOut, or a remove_liquidity
\* whose shares * reserve, does not fit in Balance fails with an arithmetic
\* error and leaves the pool unchanged.
C20_OverflowIsArithmeticError ==
    [][ProductOverflows
          => /\ DexPoolUnchanged
             /\ dex_call'.err \in ArithmeticError
      ]_dexvars

\* C20 (amended): a swap whose amount_in * reserveOut, or a remove_liquidity
\* whose shares * reserve, does not fit in Balance fails, returns nothing and
\* leaves the pool unchanged; the failure is the overflow panic, unless
\* remove_liquidity was already stopped by its share check.
C20_OverflowFails ==
    [][ProductOverflows
          => /\ DexPoolUnchanged
             /\ dex_call'.ret1 = 0
             /\ dex_call'.ret2 = 0
             /\ IF /\ DexStep("remove_liquidity")
                   /\ dex_call'.arg1 > liquidity_providers[dex_call'.caller]
                THEN dex_call'.err = "InsufficientLiquidity"
                ELSE dex_call'.err = "Overflow"
      ]_dexvars

\* C20 witness: a swap was stopped by the overflow of amount_in * reserveOut
\* although its quotient would have fitted.
C20_Witness ==
    /\ dex_call.op = "swap_a_for_b"
    /\ dex_call.err = "Overflow"
    /\ dex_call.arg1 * token_b_balance > MaxBalance
    /\ token_a_balance + dex_call.arg1 <= MaxBalance

\* C21: a swap (swap_a_for_b or swap_b_for_a), whether it succeeds or
\* fails, leaves total_liquidity and every account's liquidity shares
\* unchanged; only the two reserves may change.
C21_SwapLeavesSharesAlone ==
    [][\A op \in Swaps :
          DexStep(op)
          => /\ total_liquidity' = total_liquidity
             /\ \A x \in Accounts : liquidity_providers'[x] = liquidity_providers[x]
      ]_dexvars

\* C21 witness: a swap that moved both reserves of a pool with shares
\* outstanding.
C21_Witness ==
    /\ dex_call.op = "swap_a_for_b"
    /\ dex_call.err = "none"
    /\ dex_call.arg1 > 0
    /\ dex_call.ret1 > 0
    /\ total_liquidity > 0
    /\ \E x \in Accounts : liquidity_providers[x] > 0

\* ---------------------------------------------------------------------------
\* MarketMaker (src/src/market-making.rs)
\*
\* env().transferred_balance() is an input of the call (add_liquidity and
\* swap_eth_for_tokens are called with a value, as their bodies expect).
\* env().transfer() is
\* decided by the environment: it pays the caller or reports a failure, which
\* the message turns into a panic.  A panic traps the call: storage writes and
\* events of the call are dropped.
\* ---------------------------------------------------------------------------

NoEvent == [kind |-> "none", who |-> NoCaller, x |-> 0, y |-> 0]

\* market-making.rs:17-39: the three event types
Event(kind, who, x, y) == [kind |-> kind, who |-> who, x |-> x, y |-> y]

\* A message that ran to its end.  A message returning bool records ret = 1.
\* asked is the amount handed to env().transfer(), paid the amount it moved;
\* the inputs of the call are the fields of its event.
MMCommit(op, caller, eth, tok, new_balances, ret, asked, paid, event, steps) ==
    /\ eth_reserve' = eth
    /\ token_reserve' = tok
    /\ token_balances' = new_balances
    /\ UNCHANGED NotMM
    /\ mm_call' = [op |-> op, caller |-> caller, err |-> "none", ret |-> ret,
                   asked |-> asked, paid |-> paid, event |-> event,
                   steps |-> steps]

\* A message that panicked: the call traps, nothing of it remains.
MMRevert(op, caller, kind, asked, steps) ==
    /\ UNCHANGED <<eth_reserve, token_reserve, token_balances>>
    /\ UNCHANGED NotMM
    /\ mm_call' = [op |-> op, caller |-> caller, err |-> kind, ret |-> 0,
                   asked |-> asked, paid |-> 0, event |-> NoEvent,
                   steps |-> steps]

\* market-making.rs:43-50: the state after the constructor
MarketMaker_new(caller) ==
    /\ eth_reserve = 0
    /\ token_reserve = 0
    /\ token_balances = [x \in Accounts |-> 0]
    /\ mm_call = [op |-> "new", caller |-> caller, err |-> "none", ret |-> 0,
                  asked |-> 0, paid |-> 0, event |-> NoEvent, steps |-> <<>>]

\* market-making.rs:126-128: (eth_reserve * token_amount) / token_reserve
get_eth_price(token_amount) ==
    LET num == checked_mul(eth_reserve, token_amount)
    IN  IF num.err # "none" THEN num ELSE checked_div(num.val, token_reserve)

\* market-making.rs:130-132: (token_reserve * eth_amount) / eth_reserve
get_token_price(eth_amount) ==
    LET num == checked_mul(token_reserve, eth_amount)
    IN  IF num.err # "none" THEN num ELSE checked_div(num.val, eth_reserve)

\* market-making.rs:53-71
MarketMaker_add_liquidity(caller, eth_amount, token_amount) ==
    LET new_eth == checked_add(eth_reserve, eth_amount)
        new_tok == checked_add(token_reserve, token_amount)
        panic == FirstPanic(<<new_eth, new_tok>>)
    IN  IF ~(token_amount > 0 /\ eth_amount > 0)
        THEN MMRevert("add_liquidity", caller, "InvalidAmounts", 0,
                      <<"check">>)
        ELSE IF panic # "none"
        THEN MMRevert("add_liquidity", caller, panic, 0,
                      <<"check", "mutate">>)
        ELSE MMCommit("add_liquidity", caller,
                      new_eth.val, new_tok.val,
                      [token_balances EXCEPT ![caller] = token_amount],
                      1, 0, 0,
                      Event("LiquidityAdded", caller, eth_amount, token_amount),
                      <<"check", "mutate", "emit">>)

\* market-making.rs:74-96
MarketMaker_swap_eth_for_tokens(caller, eth_in) ==
    LET token_out == get_token_price(eth_in)
        new_eth == checked_add(eth_reserve, eth_in)
        new_tok == checked_sub(token_reserve, token_out.val)
        caller_balance == token_balances[caller]
        new_bal == checked_add(caller_balance, token_out.val)
        panic == FirstPanic(<<new_eth, new_tok, new_bal>>)
    IN  IF ~(eth_in > 0)
        THEN MMRevert("swap_eth_for_tokens", caller, "InvalidETHAmount", 0,
                      <<"check">>)
        ELSE IF token_out.err # "none"
        THEN MMRevert("swap_eth_for_tokens", caller, token_out.err, 0,
                      <<"check", "compute">>)
        ELSE IF ~(token_out.val <= token_reserve)
        THEN MMRevert("swap_eth_for_tokens", caller, "NotEnoughLiquidity", 0,
                      <<"check", "compute", "check">>)
        ELSE IF panic # "none"
        THEN MMRevert("swap_eth_for_tokens", caller, panic, 0,
                      <<"check", "compute", "check", "mutate">>)
        ELSE MMCommit("swap_eth_for_tokens", caller,
                      new_eth.val, new_tok.val,
                      [token_balances EXCEPT ![caller] = new_bal.val],
                      token_out.val, 0, 0,
                      Event("TokensSwapped", caller, eth_in, token_out.val),
                      <<"check", "compute", "check", "mutate", "emit">>)

\* Mutant: the event is emitted before the transfer is attempted.
MarketMaker_swap_tokens_for_eth_emit_first(caller, token_in, transfer_ok) ==
    LET eth_out == get_eth_price(token_in)
        new_eth == checked_sub(eth_reserve, eth_out.val)
        new_tok == checked_add(token_reserve, token_in)
        caller_balance == token_balances[caller]
        new_bal == checked_sub(caller_balance, token_in)
        panic == FirstPanic(<<new_eth, new_tok, new_bal>>)
    IN  IF ~(token_in > 0)
        THEN MMRevert("swap_tokens_for_eth", caller, "InvalidTokenAmount", 0,
                      <<"check">>)
        ELSE IF eth_out.err # "none"
        THEN MMRevert("swap_tokens_for_eth", caller, eth_out.err, 0,
                      <<"check", "compute">>)
        ELSE IF ~(eth_out.val <= eth_reserve)
        THEN MMRevert("swap_tokens_for_eth", caller, "NotEnoughLiquidity", 0,
                      <<"check", "compute", "check">>)
        ELSE IF panic # "none"
        THEN MMRevert("swap_tokens_for_eth", caller, panic, 0,
                      <<"check", "compute", "check", "mutate">>)
        ELSE IF ~transfer_ok
        THEN MMRevert("swap_tokens_for_eth", caller, "TransferFailed", eth_out.val,
                      <<"check", "compute", "check", "mutate", "emit", "transfer">>)
        ELSE MMCommit("swap_tokens_for_eth", caller,
                      new_eth.val, new_tok.val,
                      [token_balances EXCEPT ![caller] = new_bal.val],
                      eth_out.val, eth_out.val, eth_out.val,
                      Event("ETHSwapped", caller, token_in, eth_out.val),
                      <<"check", "compute", "check", "mutate", "emit", "transfer">>)

\* market-making.rs:99-124
MarketMaker_swap_tokens_for_eth(caller, token_in, transfer_ok) ==
    LET eth_out == get_eth_price(token_in)
        new_eth == checked_sub(eth_reserve, eth_out.val)
        new_tok == checked_add(token_reserve, token_in)
        caller_balance == token_balances[caller]
        new_bal == checked_sub(caller_balance, token_in)
        panic == FirstPanic(<<new_eth, new_tok, new_bal>>)
    IN  IF ~(token_in > 0)
        THEN MMRevert("swap_tokens_for_eth", caller, "InvalidTokenAmount", 0,
                      <<"check">>)
        ELSE IF eth_out.err # "none"
        THEN MMRevert("swap_tokens_for_eth", caller, eth_out.err, 0,
                      <<"check", "compute">>)
        ELSE IF ~(eth_out.val <= eth_reserve)
        THEN MMRevert("swap_tokens_for_eth", caller, "NotEnoughLiquidity", 0,
                      <<"check", "compute", "check">>)
        ELSE IF panic # "none"
        THEN MMRevert("swap_tokens_for_eth", caller, panic, 0,
                      <<"check", "compute", "check", "mutate">>)
        ELSE IF ~transfer_ok
        THEN MMRevert("swap_tokens_for_eth", caller, "TransferFailed", eth_out.val,
                      <<"check", "compute", "check", "mutate", "transfer">>)
        ELSE MMCommit("swap_tokens_for_eth", caller,
                      new_eth.val, new_tok.val,
                      [token_balances EXCEPT ![caller] = new_bal.val],
                      eth_out.val, eth_out.val, eth_out.val,
                      Event("ETHSwapped", caller, token_in, eth_out.val),
                      <<"check", "compute", "check", "mutate", "transfer", "emit">>)

\* Mutant: the result of the transfer is dropped instead of unwrapped.
MarketMaker_withdraw_liquidity_ignores_transfer(caller, eth_amount, token_amount, transfer_ok) ==
    LET new_eth == checked_sub(eth_reserve, eth_amount)
        new_tok == checked_sub(token_reserve, token_amount)
        caller_balance == token_balances[caller]
        new_bal == checked_sub(caller_balance, token_amount)
        panic == FirstPanic(<<new_eth, new_tok, new_bal>>)
    IN  IF ~(eth_amount <= eth_reserve /\ token_amount <= token_reserve)
        THEN MMRevert("withdraw_liquidity", caller, "NotEnoughLiquidity", 0,
                      <<"check">>)
        ELSE IF panic # "none"
        THEN MMRevert("withdraw_liquidity", caller, panic, 0,
                      <<"check", "mutate">>)
        ELSE MMCommit("withdraw_liquidity", caller,
                      new_eth.val, new_tok.val,
                      [token_balances EXCEPT ![caller] = new_bal.val],
                      1, eth_amount, IF transfer_ok THEN eth_amount ELSE 0,
                      Event("LiquidityAdded", caller, eth_amount, token_amount),
                      <<"check", "mutate", "transfer", "emit">>)

\* market-making.rs:135-160
MarketMaker_withdraw_liquidity(caller, eth_amount, token_amount, transfer_ok) ==
    LET new_eth == checked_sub(eth_reserve, eth_amount)
        new_tok == checked_sub(token_reserve, token_amount)
        caller_balance == token_balances[caller]
        new_bal == checked_sub(caller_balance, token_amount)
        panic == FirstPanic(<<new_eth, new_tok, new_bal>>)
    IN  IF ~(eth_amount <= eth_reserve /\ token_amount <= token_reserve)
        THEN MMRevert("withdraw_liquidity", caller, "NotEnoughLiquidity", 0,
                      <<"check">>)
        ELSE IF panic # "none"
        THEN MMRevert("withdraw_liquidity", caller, panic, 0,
                      <<"check", "mutate">>)
        ELSE IF ~transfer_ok
        THEN MMRevert("withdraw_liquidity", caller, "TransferFailed", eth_amount,
                      <<"check", "mutate", "transfer">>)
        ELSE MMCommit("withdraw_liquidity", caller,
                      new_eth.val, new_tok.val,
                      [token_balances EXCEPT ![caller] = new_bal.val],
                      1, eth_amount, eth_amount,
                      Event("LiquidityAdded", caller, eth_amount, token_amount),
                      <<"check", "mutate", "transfer", "emit">>)

MMInit ==
    /\ DexNotDeployed
    /\ BettingNotDeployed
    /\ EscrowNotDeployed
    /\ FarmingNotDeployed
    /\ VotingNotDeployed
    /\ TokenNotDeployed
    /\ \E caller \in Accounts : MarketMaker_new(caller)

MMNext ==
    \/ \E caller \in Accounts, eth_amount \in Amounts, token_amount \in Amounts :
           MarketMaker_add_liquidity(caller, eth_amount, token_amount)
    \/ \E caller \in Accounts, eth_in \in Amounts :
           MarketMaker_swap_eth_for_tokens(caller, eth_in)
    \/ \E caller \in Accounts, token_in \in Amounts, transfer_ok \in BOOLEAN :
           MarketMaker_swap_tokens_for_eth(caller, token_in, transfer_ok)
    \/ \E caller \in Accounts, eth_amount \in Amounts, token_amount \in Amounts,
          transfer_ok \in BOOLEAN :
           MarketMaker_withdraw_liquidity(caller, eth_amount, token_amount, transfer_ok)

SpecMM == MMInit /\ [][MMNext]_vars

\* ---------------------------------------------------------------------
\* MarketMaker properties
\* ---------------------------------------------------------------------

MMPoolUnchanged == UNCHANGED <<eth_reserve, token_reserve, token_balances>>

\* The step is a call of message op (its record is the new mm_call).
MMStep(op) == mm_call'.op = op

MMSwaps == {"swap_eth_for_tokens", "swap_tokens_for_eth"}

\* The messages that pay native currency out to the caller.
MMOutgoing == {"swap_tokens_for_eth", "withdraw_liquidity"}

\* C15 (as claimed): every successful swap_eth_for_tokens or
\* swap_tokens_for_eth leaves eth_reserve * token_reserve greater than or
\* equal to its value before the swap.
C15_MMProductNonDecreasing ==
    [][\A op \in MMSwaps :
          (MMStep(op) /\ mm_call'.err = "none")
          => eth_reserve' * token_reserve' >= eth_reserve * token_reserve
      ]_mmvars

\* C16 (as claimed): withdraw_liquidity succeeds only if the caller's
\* recorded position covers the withdrawn amounts: a caller with no recorded
\* position withdraws no positive eth_amount, the withdrawn token_amount is
\* at most the caller's position, and no recorded balance goes negative.
C16_WithdrawWithinPosition ==
    [][(MMStep("withdraw_liquidity") /\ mm_call'.err = "none")
       => /\ mm_call'.event.y <= token_balances[mm_call'.caller]
          /\ (mm_call'.event.x > 0 => token_balances[mm_call'.caller] > 0)
          /\ \A x \in Accounts : token_balances'[x] >= 0
      ]_mmvars

\* C17 (as claimed): every successful add_liquidity increases both reserves
\* by the deposited amounts and the caller's recorded position by
\* token_amount relative to its previous value.
C17_DepositAccumulates ==
    [][(MMStep("add_liquidity") /\ mm_call'.err = "none")
       => /\ eth_reserve' = eth_reserve + mm_call'.event.x
          /\ token_reserve' = token_reserve + mm_call'.event.y
          /\ token_balances'[mm_call'.caller]
                 = token_balances[mm_call'.caller] + mm_call'.event.y
      ]_mmvars

\* C18: in swap_tokens_for_eth and withdraw_liquidity a failed outgoing
\* transfer fails the call, leaves eth_reserve, token_reserve and
\* token_balances as they were and records no event; a call that succeeds
\* has paid what it asked the transfer for, and eth_reserve goes down by
\* exactly the amount paid, so no step decrements the reserve without the
\* transfer being made.
C18_FailedTransferLeavesNoTrace ==
    [][\A op \in MMOutgoing :
          MMStep(op)
          => /\ (mm_call'.err = "TransferFailed"
                 => /\ MMPoolUnchanged
                    /\ mm_call'.event = NoEvent
                    /\ mm_call'.paid = 0
                    /\ mm_call'.ret = 0)
             /\ (mm_call'.err = "none" => mm_call'.paid = mm_call'.asked)
             /\ eth_reserve - eth_reserve' = mm_call'.paid
      ]_mmvars

\* C18 witness: a withdrawal of a positive amount whose transfer failed,
\* with the reserve still holding the amount asked for.
C18_Witness ==
    /\ mm_call.op = "withdraw_liquidity"
    /\ mm_call.err = "TransferFailed"
    /\ mm_call.asked > 0
    /\ eth_reserve >= mm_call.asked

\* Every occurrence of step a in s comes before every occurrence of step b.
Before(s, a, b) ==
    \A i \in DOMAIN s, j \in DOMAIN s : (s[i] = a /\ s[j] = b) => i < j

Has(s, a) == \E i \in DOMAIN s : s[i] = a

\* C19 (as claimed): in every message the steps come in the order checks,
\* computation, external transfer, reserve/balance mutation, event; the
\* mutation never precedes the transfer.  Stated for the calls that paid a
\* positive amount out.
C19_TransferBeforeMutation ==
    (mm_call.err = "none" /\ mm_call.paid > 0)
    => /\ Before(mm_call.steps, "compute", "transfer")
       /\ Before(mm_call.steps, "transfer", "mutate")
       /\ Before(mm_call.steps, "mutate", "emit")
       /\ Before(mm_call.steps, "transfer", "emit")

\* C19 (amended): every message starts with a precondition check, computes
\* its amount before it mutates, mutates the reserves and the balance
\* before it asks for the outgoing transfer, and emits its event last, only
\* in a call that succeeds; a call whose transfer fails has no event and
\* (C18) no mutation left.
C19_MutationThenTransferThenEvent ==
    LET s == mm_call.steps
    IN  /\ (s # <<>> => s[1] = "check")
        /\ Before(s, "compute", "mutate")
        /\ Before(s, "mutate", "transfer")
        /\ (Has(s, "transfer") => Has(s, "mutate"))
        /\ (Has(s, "transfer") <=> (mm_call.op \in MMOutgoing
                                      /\ mm_call.err \in {"none", "TransferFailed"}))
        /\ (Has(s, "emit") => (mm_call.err = "none" /\ s[Len(s)] = "emit"))
        /\ ((mm_call.err = "none" /\ mm_call.op # "new") => Has(s, "emit"))
        /\ Before(s, "mutate", "emit")
        /\ Before(s, "transfer", "emit")

\* C19 witness: a swap_tokens_for_eth that paid a positive amount out, with
\* all six steps taken.
C19_Witness ==
    /\ mm_call.op = "swap_tokens_for_eth"
    /\ mm_call.err = "none"
    /\ mm_call.paid > 0
    /\ Len(mm_call.steps) = 6

\* ---------------------------------------------------------------------------
\* Betting (src/src/bet.rs)
\*
\* env().transferred_balance() is an input of place_bet and is added to the
\* contract's balance when the call is entered.  The contract is deployed
\* with no balance of its own.  env().transfer() fails when the contract
\* holds less than the amount, or when the environment refuses it; expect()
\* turns the failure into a panic, which traps the call.
\* ---------------------------------------------------------------------------

\* bet.rs:14-17
BetOption == {"Option1", "Option2"}

\* bet.rs:21-24; NoBet stands for a key that is not in bets
Bet(value, option) == [amount |-> value, option |-> option]

NoBet == [amount |-> 0, option |-> "None"]

\* The amount staked on an option (bet.rs:93-94, 107-108).
OptionAmount(option) ==
    IF option = "Option1" THEN option1_amount ELSE option2_amount

\* A message that panicked: the call traps, storage and balance are as before.
BettingRevert(op, caller, kind) ==
    /\ UNCHANGED <<betting_owner, bets, total_amount, option1_amount,
                   option2_amount, betting_open, winner, betting_balance,
                   paid_amount, paid_times>>
    /\ UNCHANGED NotBetting
    /\ bet_call' = [op |-> op, caller |-> caller, err |-> kind, paid |-> 0]

\* bet.rs:39-49: the state after the constructor
Betting_new(caller) ==
    /\ betting_owner = caller
    /\ bets = [x \in Accounts |-> NoBet]
    /\ total_amount = 0
    /\ option1_amount = 0
    /\ option2_amount = 0
    /\ betting_open = TRUE
    /\ winner = "None"
    /\ betting_balance = 0
    /\ paid_amount = [x \in Accounts |-> 0]
    /\ paid_times = [x \in Accounts |-> 0]
    /\ bet_call = [op |-> "new", caller |-> caller, err |-> "none", paid |-> 0]

\* bet.rs:52-68
Betting_place_bet(caller, option, value) ==
    LET new_total == checked_add(total_amount, value)
        new_option == checked_add(OptionAmount(option), value)
        panic == FirstPanic(<<new_total, new_option>>)
    IN  IF ~betting_open
        THEN BettingRevert("place_bet", caller, "BettingClosed")
        ELSE IF ~(value > 0)
        THEN BettingRevert("place_bet", caller, "ZeroBet")
        ELSE IF panic # "none"
        THEN BettingRevert("place_bet", caller, panic)
        ELSE /\ total_amount' = new_total.val
             /\ option1_amount' = IF option = "Option1" THEN new_option.val
                                  ELSE option1_amount
             /\ option2_amount' = IF option = "Option2" THEN new_option.val
                                  ELSE option2_amount
             /\ bets' = [bets EXCEPT ![caller] = Bet(value, option)]
             /\ betting_balance' = betting_balance + value
             /\ UNCHANGED <<betting_owner, betting_open, winner, paid_amount,
                            paid_times>>
             /\ UNCHANGED NotBetting
             /\ bet_call' = [op |-> "place_bet", caller |-> caller,
                             err |-> "none", paid |-> 0]

\* Mutant: any account closes the betting.
Betting_close_betting_by_anyone(caller) ==
    /\ betting_open' = FALSE
    /\ UNCHANGED <<betting_owner, bets, total_amount, option1_amount,
                   option2_amount, winner, betting_balance, paid_amount,
                   paid_times>>
    /\ UNCHANGED NotBetting
    /\ bet_call' = [op |-> "close_betting", caller |-> caller,
                    err |-> "none", paid |-> 0]

\* bet.rs:71-74
Betting_close_betting(caller) ==
    IF caller # betting_owner
    THEN BettingRevert("close_betting", caller, "NotOwner")
    ELSE /\ betting_open' = FALSE
         /\ UNCHANGED <<betting_owner, bets, total_amount, option1_amount,
                        option2_amount, winner, betting_balance, paid_amount,
                        paid_times>>
         /\ UNCHANGED NotBetting
         /\ bet_call' = [op |-> "close_betting", caller |-> caller,
                         err |-> "none", paid |-> 0]

\* bet.rs:104-118: the payouts distribute_rewards transfers when the winner
\* is winning_option: bet.amount * (total_amount / option amount) to every
\* account whose bet is on the winning option, nothing to the others.
distribute_rewards(winning_option) ==
    LET payout_ratio == checked_div(total_amount, OptionAmount(winning_option))
        payout(x) == IF bets[x].option = winning_option
                     THEN checked_mul(bets[x].amount, payout_ratio.val)
                     ELSE Ok(0)
        failed == {x \in Accounts : payout(x).err # "none"}
    IN  IF payout_ratio.err # "none"
        THEN [err |-> payout_ratio.err, pay |-> [x \in Accounts |-> 0]]
        ELSE IF failed # {}
        THEN [err |-> "Overflow", pay |-> [x \in Accounts |-> 0]]
        ELSE [err |-> "none", pay |-> [x \in Accounts |-> payout(x).val]]

\* bet.rs:77-83
Betting_select_winner(caller, option, transfer_ok) ==
    LET rewards == distribute_rewards(option)
        total_paid == SumOver(rewards.pay, Accounts)
    IN  IF caller # betting_owner
        THEN BettingRevert("select_winner", caller, "NotOwner")
        ELSE IF betting_open
        THEN BettingRevert("select_winner", caller, "BettingOpen")
        ELSE IF rewards.err # "none"
        THEN BettingRevert("select_winner", caller, rewards.err)
        ELSE IF total_paid > betting_balance \/ ~transfer_ok
        THEN BettingRevert("select_winner", caller, "TransferFailed")
        ELSE /\ winner' = option
             /\ betting_balance' = betting_balance - total_paid
             /\ paid_amount' = [x \in Accounts |-> paid_amount[x] + rewards.pay[x]]
             /\ paid_times' = [x \in Accounts |->
                                  IF bets[x].option = option
                                  THEN paid_times[x] + 1 ELSE paid_times[x]]
             /\ UNCHANGED <<betting_owner, bets, total_amount, option1_amount,
                            option2_amount, betting_open>>
             /\ UNCHANGED NotBetting
             /\ bet_call' = [op |-> "select_winner", caller |-> caller,
                             err |-> "none", paid |-> total_paid]

\* bet.rs:86-102
Betting_withdraw(caller, transfer_ok) ==
    LET bet == bets[caller]
        payout_ratio == checked_div(total_amount, OptionAmount(winner))
        payout == checked_mul(bet.amount, payout_ratio.val)
        panic == FirstPanic(<<payout_ratio, payout>>)
    IN  IF winner = "None"
        THEN BettingRevert("withdraw", caller, "NoWinner")
        ELSE IF bet = NoBet \/ bet.option # winner
        THEN /\ UNCHANGED <<betting_owner, bets, total_amount, option1_amount,
                            option2_amount, betting_open, winner,
                            betting_balance, paid_amount, paid_times>>
             /\ UNCHANGED NotBetting
             /\ bet_call' = [op |-> "withdraw", caller |-> caller,
                             err |-> "none", paid |-> 0]
        ELSE IF panic # "none"
        THEN BettingRevert("withdraw", caller, panic)
        ELSE IF payout.val > betting_balance \/ ~transfer_ok
        THEN BettingRevert("withdraw", caller, "TransferFailed")
        ELSE /\ bets' = [bets EXCEPT ![caller] = NoBet]
             /\ betting_balance' = betting_balance - payout.val
             /\ paid_amount' = [paid_amount EXCEPT ![caller] = @ + payout.val]
             /\ paid_times' = [paid_times EXCEPT ![caller] = @ + 1]
             /\ UNCHANGED <<betting_owner, total_amount, option1_amount,
                            option2_amount, betting_open, winner>>
             /\ UNCHANGED NotBetting
             /\ bet_call' = [op |-> "withdraw", caller |-> caller,
                             err |-> "none", paid |-> payout.val]

BettingInit ==
    /\ DexNotDeployed
    /\ MMNotDeployed
    /\ EscrowNotDeployed
    /\ FarmingNotDeployed
    /\ VotingNotDeployed
    /\ TokenNotDeployed
    /\ \E caller \in Accounts : Betting_new(caller)

BettingNext ==
    \/ \E caller \in Accounts, option \in BetOption, value \in Amounts :
           Betting_place_bet(caller, option, value)
    \/ \E caller \in Accounts :
           Betting_close_betting(caller)
    \/ \E caller \in Accounts, option \in BetOption, transfer_ok \in BOOLEAN :
           Betting_select_winner(caller, option, transfer_ok)
    \/ \E caller \in Accounts, transfer_ok \in BOOLEAN :
           Betting_withdraw(caller, transfer_ok)

SpecBetting == BettingInit /\ [][BettingNext]_vars

\* ---------------------------------------------------------------------------
\* Betting: properties
\* ---------------------------------------------------------------------------

BettingStorageUnchanged ==
    UNCHANGED <<betting_owner, bets, total_amount, option1_amount,
                option2_amount, betting_open, winner, betting_balance,
                paid_amount, paid_times>>

\* C22 (as claimed): over any sequence of place_bet, close_betting,
\* select_winner and withdraw, the payouts transferred out by select_winner
\* and withdraw never add up to more than total_amount, and every winning
\* bet is paid at most once.
C22_PayoutsWithinStakes ==
    /\ SumOver(paid_amount, Accounts) <= total_amount
    /\ \A x \in Accounts : paid_times[x] <= 1

\* C25: the lifecycle is one-way Open -> Closed -> WinnerSelected: place_bet
\* succeeds only while betting_open, betting_open never becomes true again,
\* winner is set only by a successful select_winner and only while the
\* betting is closed, and close_betting / select_winner by a non-owner fail
\* without changing the state.
C25_OneWayLifecycle ==
    [][/\ (bet_call'.op = "place_bet" /\ bet_call'.err = "none") => betting_open
       /\ betting_open' => betting_open
       /\ (bet_call'.op = "select_winner" /\ bet_call'.err = "none")
              => (~betting_open /\ ~betting_open' /\ winner' # "None")
       /\ winner' # winner
              => (bet_call'.op = "select_winner" /\ bet_call'.err = "none")
       /\ winner' # "None" => ~betting_open'
       /\ \A op \in {"close_betting", "select_winner"} :
              (bet_call'.op = op /\ bet_call'.caller # betting_owner)
              => (bet_call'.err = "NotOwner" /\ BettingStorageUnchanged)
      ]_betvars

\* C25 witness: the owner has selected a winner after bets were placed and
\* the betting was closed.
C25_Witness ==
    /\ bet_call.op = "select_winner"
    /\ bet_call.err = "none"
    /\ bet_call.caller = betting_owner
    /\ winner # "None"
    /\ ~betting_open
    /\ total_amount > 0

\* ---------------------------------------------------------------------------
\* Escrow (src/src/escrow.rs)
\*
\* The messages return Result; a message that returns Err is reverted by
\* ink!, as a panic is: its storage writes and events are dropped.
\* env().transferred_value() is an input of fund; env().transfer() is decided
\* by the environment and its failure is returned as Err by the ? operator.
\* ---------------------------------------------------------------------------

\* A message that returned Ok.  to and paid are the transfer it made, event
\* the event it emitted.
EscrowCommit(op, caller, new_buyer, new_amount, funded, released, to, paid, event) ==
    /\ buyer' = new_buyer
    /\ escrow_amount' = new_amount
    /\ is_funded' = funded
    /\ is_released' = released
    /\ UNCHANGED <<seller, arbiter>>
    /\ UNCHANGED NotEscrow
    /\ escrow_call' = [op |-> op, caller |-> caller, err |-> "none",
                       to |-> to, paid |-> paid, event |-> event]

\* A message that returned Err: the storage is as before the call.
EscrowRevert(op, caller, kind) ==
    /\ UNCHANGED <<buyer, seller, arbiter, escrow_amount, is_funded, is_released>>
    /\ UNCHANGED NotEscrow
    /\ escrow_call' = [op |-> op, caller |-> caller, err |-> kind,
                       to |-> NoCaller, paid |-> 0, event |-> "none"]

\* escrow.rs:46-55: the state after the constructor; Default::default() is
\* the zero account
Escrow_new(new_seller, new_arbiter) ==
    /\ buyer = NoCaller
    /\ seller = new_seller
    /\ arbiter = new_arbiter
    /\ escrow_amount = 0
    /\ is_funded = FALSE
    /\ is_released = FALSE
    /\ escrow_call = [op |-> "new", caller |-> NoCaller, err |-> "none",
                      to |-> NoCaller, paid |-> 0, event |-> "none"]

\* escrow.rs:57-76
Escrow_fund(caller, transferred_amount) ==
    IF is_funded
    THEN EscrowRevert("fund", caller, "AlreadyFunded")
    ELSE EscrowCommit("fund", caller, caller, transferred_amount, TRUE,
                      is_released, NoCaller, 0, "Funded")

\* escrow.rs:78-104
Escrow_release(caller, transfer_ok) ==
    IF caller # arbiter
    THEN EscrowRevert("release", caller, "NotArbiter")
    ELSE IF ~is_funded
    THEN EscrowRevert("release", caller, "NotFunded")
    ELSE IF is_released
    THEN EscrowRevert("release", caller, "AlreadyReleased")
    ELSE IF ~transfer_ok
    THEN EscrowRevert("release", caller, "TransferFailed")
    ELSE EscrowCommit("release", caller, buyer, escrow_amount, is_funded, TRUE,
                      seller, escrow_amount, "Released")

\* Mutant: the refund leaves is_funded set.
Escrow_refund_keeps_funded(caller, transfer_ok) ==
    IF caller # arbiter
    THEN EscrowRevert("refund", caller, "NotArbiter")
    ELSE IF ~is_funded
    THEN EscrowRevert("refund", caller, "NotFunded")
    ELSE IF is_released
    THEN EscrowRevert("refund", caller, "AlreadyReleased")
    ELSE IF ~transfer_ok
    THEN EscrowRevert("refund", caller, "TransferFailed")
    ELSE EscrowCommit("refund", caller, buyer, escrow_amount, is_funded,
                      is_released, buyer, escrow_amount, "Refunded")

\* escrow.rs:106-132
Escrow_refund(caller, transfer_ok) ==
    IF caller # arbiter
    THEN EscrowRevert("refund", caller, "NotArbiter")
    ELSE IF ~is_funded
    THEN EscrowRevert("refund", caller, "NotFunded")
    ELSE IF is_released
    THEN EscrowRevert("refund", caller, "AlreadyReleased")
    ELSE IF ~transfer_ok
    THEN EscrowRevert("refund", caller, "TransferFailed")
    ELSE EscrowCommit("refund", caller, buyer, escrow_amount, FALSE,
                      is_released, buyer, escrow_amount, "Refunded")

EscrowInit ==
    /\ DexNotDeployed
    /\ MMNotDeployed
    /\ BettingNotDeployed
    /\ FarmingNotDeployed
    /\ VotingNotDeployed
    /\ TokenNotDeployed
    /\ \E new_seller \in Accounts, new_arbiter \in Accounts :
           Escrow_new(new_seller, new_arbiter)

EscrowNext ==
    \/ \E caller \in Accounts, transferred_amount \in Amounts :
           Escrow_fund(caller, transferred_amount)
    \/ \E caller \in Accounts, transfer_ok \in BOOLEAN :
           Escrow_release(caller, transfer_ok)
    \/ \E caller \in Accounts, transfer_ok \in BOOLEAN :
           Escrow_refund(caller, transfer_ok)

SpecEscrow == EscrowInit /\ [][EscrowNext]_vars

\* ---------------------------------------------------------------------------
\* Escrow: properties
\* ---------------------------------------------------------------------------

\* The step is a release or a refund that returned Ok: a payout.
EscrowPayout ==
    /\ escrow_call'.op \in {"release", "refund"}
    /\ escrow_call'.err = "none"

EscrowFunded ==
    /\ escrow_call'.op = "fund"
    /\ escrow_call'.err = "none"

\* C23: the escrowed amount is paid out at most once per successful fund.
\* A payout needs a funded, unreleased escrow and the arbiter as caller and
\* pays exactly the escrowed amount, to the seller (release) or the buyer
\* (refund); a release sets is_released for good, after which no release,
\* refund or fund succeeds; a refund clears is_funded, which only a
\* successful fund sets again; no other call moves any value.
C23_PaidOnceByArbiter ==
    [][/\ EscrowPayout
          => /\ escrow_call'.caller = arbiter
             /\ is_funded /\ ~is_released
             /\ escrow_call'.paid = escrow_amount
             /\ escrow_call'.to = (IF escrow_call'.op = "release"
                                   THEN seller ELSE buyer)
             /\ (escrow_call'.op = "release" => is_released')
             /\ (escrow_call'.op = "refund" => ~is_funded')
       /\ is_released => (is_released' /\ ~EscrowPayout /\ ~EscrowFunded)
       /\ (~is_funded /\ is_funded') => EscrowFunded
       /\ ~EscrowPayout => escrow_call'.paid = 0
      ]_escrowvars

\* C23 witness: an escrow funded with a positive amount by a buyer other
\* than the arbiter was released to the seller by the arbiter.
C23_Witness ==
    /\ escrow_call.op = "release"
    /\ escrow_call.err = "none"
    /\ escrow_call.caller = arbiter
    /\ escrow_call.paid = escrow_amount
    /\ escrow_amount > 0
    /\ is_released
    /\ buyer # arbiter

\* ---------------------------------------------------------------------------
\* Farming (src/src/farming.rs)
\*
\* env().block_number() is an input of every message: the block the call is
\* executed in, which is never below the block of the call before it.
\* env().transfer() is decided by the environment; expect() turns its failure
\* into a panic.
\* ---------------------------------------------------------------------------

Blocks == 0..MaxBlock

\* farming.rs:14-18; some = FALSE stands for a key that is not in stakers
StakeInfo(staked, debt, last) ==
    [some |-> TRUE, amount |-> staked, reward_debt |-> debt, last_staked |-> last]

NoStake == [some |-> FALSE, amount |-> 0, reward_debt |-> 0, last_staked |-> 0]

\* farming.rs:89-98, called in block now
pending_reward(staker, now) ==
    LET stake_info == stakers[staker]
        staked_time == now - stake_info.last_staked
        per_block == checked_mul(stake_info.amount, reward_rate)
        pending == checked_mul(per_block.val, staked_time)
    IN  IF ~stake_info.some THEN Ok(0)
        ELSE IF per_block.err # "none" THEN per_block
        ELSE IF pending.err # "none" THEN pending
        ELSE IF pending.val < stake_info.reward_debt
        THEN Panic("SubtractOverflow")
        ELSE Ok(pending.val - stake_info.reward_debt)

\* A message that ran to its end in block now.
FarmingCommit(op, caller, arg, now, new_total, new_info, paid) ==
    /\ total_staked' = new_total
    /\ stakers' = [stakers EXCEPT ![caller] = new_info]
    /\ block_number' = now
    /\ UNCHANGED reward_rate
    /\ UNCHANGED NotFarming
    /\ farming_call' = [op |-> op, caller |-> caller, arg |-> arg,
                        err |-> "none", paid |-> paid]

\* A message that panicked in block now: the call traps.
FarmingRevert(op, caller, arg, now, kind) ==
    /\ UNCHANGED <<total_staked, reward_rate, stakers>>
    /\ block_number' = now
    /\ UNCHANGED NotFarming
    /\ farming_call' = [op |-> op, caller |-> caller, arg |-> arg,
                        err |-> kind, paid |-> 0]

\* farming.rs:29-35: the state after the constructor
Farming_new(rate) ==
    /\ total_staked = 0
    /\ reward_rate = rate
    /\ stakers = [x \in Accounts |-> NoStake]
    /\ block_number = 0
    /\ farming_call = [op |-> "new", caller |-> NoCaller, arg |-> rate,
                       err |-> "none", paid |-> 0]

\* farming.rs:38-52
Farming_stake(caller, amount, now) ==
    /\ now >= block_number
    /\ LET stake_info == stakers[caller]
           pending == pending_reward(caller, now)
           new_amount == checked_add(stake_info.amount, amount)
           new_debt == checked_add(stake_info.reward_debt, pending.val)
           new_total == checked_add(total_staked, amount)
           panic == FirstPanic(<<pending, new_amount, new_debt, new_total>>)
       IN  IF panic # "none"
           THEN FarmingRevert("stake", caller, amount, now, panic)
           ELSE FarmingCommit("stake", caller, amount, now, new_total.val,
                              StakeInfo(new_amount.val, new_debt.val, now), 0)

\* farming.rs:55-71
Farming_withdraw(caller, amount, now) ==
    /\ now >= block_number
    /\ LET stake_info == stakers[caller]
           pending == pending_reward(caller, now)
           new_amount == checked_sub(stake_info.amount, amount)
           new_debt == checked_add(stake_info.reward_debt, pending.val)
           new_total == checked_sub(total_staked, amount)
           panic == FirstPanic(<<pending, new_amount, new_debt, new_total>>)
       IN  IF ~stake_info.some
           THEN FarmingRevert("withdraw", caller, amount, now, "NoStake")
           ELSE IF ~(stake_info.amount >= amount)
           THEN FarmingRevert("withdraw", caller, amount, now, "InsufficientStake")
           ELSE IF panic # "none"
           THEN FarmingRevert("withdraw", caller, amount, now, panic)
           ELSE FarmingCommit("withdraw", caller, amount, now, new_total.val,
                              StakeInfo(new_amount.val, new_debt.val, now), 0)

\* farming.rs:74-86
Farming_claim(caller, now, transfer_ok) ==
    /\ now >= block_number
    /\ LET stake_info == stakers[caller]
           pending == pending_reward(caller, now)
       IN  IF pending.err # "none"
           THEN FarmingRevert("claim", caller, 0, now, pending.err)
           ELSE IF ~stake_info.some
           THEN FarmingRevert("claim", caller, 0, now, "NoStake")
           ELSE IF ~transfer_ok
           THEN FarmingRevert("claim", caller, 0, now, "TransferFailed")
           ELSE FarmingCommit("claim", caller, 0, now, total_staked,
                              StakeInfo(stake_info.amount, 0, stake_info.last_staked),
                              pending.val)

FarmingInit ==
    /\ DexNotDeployed
    /\ MMNotDeployed
    /\ BettingNotDeployed
    /\ EscrowNotDeployed
    /\ VotingNotDeployed
    /\ TokenNotDeployed
    /\ \E rate \in Amounts : Farming_new(rate)

FarmingNext ==
    \/ \E caller \in Accounts, amount \in Amounts, now \in Blocks :
           Farming_stake(caller, amount, now)
    \/ \E caller \in Accounts, amount \in Amounts, now \in Blocks :
           Farming_withdraw(caller, amount, now)
    \/ \E caller \in Accounts, now \in Blocks, transfer_ok \in BOOLEAN :
           Farming_claim(caller, now, transfer_ok)

SpecFarming == FarmingInit /\ [][FarmingNext]_vars

\* ---------------------------------------------------------------------------
\* Farming: properties
\* ---------------------------------------------------------------------------

\* C24 (as claimed): withdraw(amount) by a staker whose staked amount is at
\* least amount succeeds at any block and after any earlier calls, and takes
\* exactly amount off the staker's amount and off total_staked.  A call
\* stopped by a product or sum beyond the narrowed Balance is left aside.
C24_WithdrawAlwaysSucceeds ==
    [][(/\ farming_call'.op = "withdraw"
        /\ stakers[farming_call'.caller].some
        /\ stakers[farming_call'.caller].amount >= farming_call'.arg
        /\ farming_call'.err # "Overflow")
       => /\ farming_call'.err = "none"
          /\ stakers'[farming_call'.caller].amount
                 = stakers[farming_call'.caller].amount - farming_call'.arg
          /\ total_staked' = total_staked - farming_call'.arg
      ]_farmingvars

\* ---------------------------------------------------------------------------
\* Voting (src/src/voting.rs)
\*
\* vote returns Result; a message that returns Err is reverted by ink!.
\* ---------------------------------------------------------------------------

\* The names on a candidate list, and the names a caller may vote for.
Listed == {"ann", "ben"}

Names == Listed \cup {"zed"}

\* The candidate lists the constructor is called with (Vec<String>; a name
\* may be listed twice).
CandidateLists == UNION {[1..n -> Listed] : n \in 0..MaxCandidates}

\* voting.rs:32: self.candidates.contains(&candidate)
contains(list, candidate) == \E i \in DOMAIN list : list[i] = candidate

VotingRevert(caller, candidate, kind) ==
    /\ UNCHANGED <<candidates, votes, has_voted>>
    /\ UNCHANGED NotVoting
    /\ voting_call' = [op |-> "vote", caller |-> caller,
                       candidate |-> candidate, err |-> kind]

\* voting.rs:15-23: the state after the constructor
Voting_new(list) ==
    /\ candidates = list
    /\ votes = [c \in Names |-> 0]
    /\ has_voted = [x \in Accounts |-> FALSE]
    /\ voting_call = [op |-> "new", caller |-> NoCaller,
                      candidate |-> "-", err |-> "none"]

\* Mutant: the vote is counted but the caller is not marked.
Voting_vote_unmarked(caller, candidate) ==
    IF has_voted[caller]
    THEN VotingRevert(caller, candidate, "AlreadyVoted")
    ELSE IF ~contains(candidates, candidate)
    THEN VotingRevert(caller, candidate, "CandidateNotFound")
    ELSE LET current_votes == votes[candidate]
         IN  /\ votes' = [votes EXCEPT ![candidate] = current_votes + 1]
             /\ UNCHANGED <<candidates, has_voted>>
             /\ UNCHANGED NotVoting
             /\ voting_call' = [op |-> "vote", caller |-> caller,
                                candidate |-> candidate, err |-> "none"]

\* voting.rs:26-41
Voting_vote(caller, candidate) ==
    IF has_voted[caller]
    THEN VotingRevert(caller, candidate, "AlreadyVoted")
    ELSE IF ~contains(candidates, candidate)
    THEN VotingRevert(caller, candidate, "CandidateNotFound")
    ELSE LET current_votes == votes[candidate]
         IN  /\ votes' = [votes EXCEPT ![candidate] = current_votes + 1]
             /\ has_voted' = [has_voted EXCEPT ![caller] = TRUE]
             /\ UNCHANGED candidates
             /\ UNCHANGED NotVoting
             /\ voting_call' = [op |-> "vote", caller |-> caller,
                                candidate |-> candidate, err |-> "none"]

VotingInit ==
    /\ DexNotDeployed
    /\ MMNotDeployed
    /\ BettingNotDeployed
    /\ EscrowNotDeployed
    /\ FarmingNotDeployed
    /\ TokenNotDeployed
    /\ \E list \in CandidateLists : Voting_new(list)

VotingNext ==
    \E caller \in Accounts, candidate \in Names : Voting_vote(caller, candidate)

SpecVoting == VotingInit /\ [][VotingNext]_vars

\* ---------------------------------------------------------------------------
\* Voting: properties
\* ---------------------------------------------------------------------------

\* The accounts marked as having voted.
Voted(marks) == {x \in Accounts : marks[x]}

\* Every vote counted belongs to one marked account and to a listed name.
VotesCountedOnce(list, counts, marks) ==
    /\ SumOver(counts, Names) = Cardinality(Voted(marks))
    /\ \A c \in Names : counts[c] > 0 => contains(list, c)

\* C26: each account's vote is counted at most once: the votes of all
\* candidates add up to the number of accounts with has_voted = true, votes
\* are recorded only for listed candidates, and a rejected vote (caller has
\* already voted, or unknown candidate) changes neither votes nor has_voted.
C26_OneVotePerAccount ==
    [][/\ VotesCountedOnce(candidates, votes, has_voted)
       /\ VotesCountedOnce(candidates', votes', has_voted')
       /\ (has_voted[voting_call'.caller]
           \/ ~contains(candidates, voting_call'.candidate))
              => (voting_call'.err # "none" /\ votes' = votes
                  /\ has_voted' = has_voted)
       /\ voting_call'.err = "none"
              => (/\ votes'[voting_call'.candidate] = votes[voting_call'.candidate] + 1
                  /\ has_voted'[voting_call'.caller]
                  /\ ~has_voted[voting_call'.caller])
      ]_votingvars

\* C26 witness: both accounts have voted and a further vote for a listed
\* candidate was rejected.
C26_Witness ==
    /\ \A x \in Accounts : has_voted[x]
    /\ SumOver(votes, Names) = Cardinality(Accounts)
    /\ voting_call.err = "AlreadyVoted"
    /\ contains(candidates, voting_call.candidate)

\* ---------------------------------------------------------------------------
\* TokenContract (src/src/main.rs)
\*
\* A plain Rust value, not a contract: nothing rolls a call back.  u64 is
\* narrowed to 0..MaxBalance.  An overflow of u64 arithmetic panics in a
\* build with overflow checks (the dev profile) and wraps in a build without
\* them (the release profile); unwrap() of None panics in both.  A panic
\* ends the program where it happens: the fields keep what was written
\* before it, and no further operation runs.
\* ---------------------------------------------------------------------------

\* The account names the operations are called with (String).
Holders == {"owner", "alice"}

\* The account names used as spender of an allowance.
Spenders == {"bob"}

\* main.rs:44: owner is set once and never written again
token_owner == "owner"

\* HashMap::get(k).unwrap_or(0) and HashMap insert / entry(k).or_insert(0)
Get(map, k) == IF k \in DOMAIN map THEN map[k] ELSE 0

Put(map, k, v) == [x \in DOMAIN map \cup {k} |-> IF x = k THEN v ELSE map[x]]

\* a + b and a - b on u64 under the build's overflow handling
u64_add(a, b) ==
    IF a + b <= MaxBalance THEN Ok(a + b)
    ELSE IF overflow_checks THEN Panic("Panic")
    ELSE Ok((a + b) % (MaxBalance + 1))

u64_sub(a, b) ==
    IF a >= b THEN Ok(a - b)
    ELSE IF overflow_checks THEN Panic("Panic")
    ELSE Ok((a - b) % (MaxBalance + 1))

\* main.rs:97-99
balance_of(account) == Get(balances, account)

\* main.rs:101-107: allowances is kept as one map from <<owner, spender>>
allowance(holder, spender) == Get(allowances, <<holder, spender>>)

\* The program has not panicked.
Running == token_call.err # "Panic"

\* The fields after an operation: it returned Ok (err = "none", event
\* pushed), returned Err, or panicked with the writes made so far.
TokenResult(op, new_balances, new_allowances, new_total, err, event) ==
    /\ balances' = new_balances
    /\ allowances' = new_allowances
    /\ total_supply' = new_total
    /\ UNCHANGED overflow_checks
    /\ UNCHANGED NotToken
    /\ token_call' = [op |-> op, err |-> err, event |-> event]

\* An operation that returned Err before writing anything.
TokenErr(op, kind) ==
    TokenResult(op, balances, allowances, total_supply, kind, "none")

\* main.rs:33-46: the value after new, in a build with or without overflow
\* checks
TokenContract_new(initial_supply, checks) ==
    /\ total_supply = initial_supply
    /\ balances = [x \in {token_owner} |-> initial_supply]
    /\ allowances = << >>
    /\ overflow_checks = checks
    /\ token_call = [op |-> "new", err |-> "none", event |-> "none"]

\* main.rs:134-138: the balances after the debit of from, and the credit of
\* to that follows it
update_balances(from, to, amount) ==
    LET debit == u64_sub(Get(balances, from), amount)
        debited == Put(balances, from, debit.val)
        credit == u64_add(Get(debited, to), amount)
    IN  IF debit.err # "none" THEN [err |-> "Panic", map |-> balances]
        ELSE IF credit.err # "none" THEN [err |-> "Panic", map |-> debited]
        ELSE [err |-> "none", map |-> Put(debited, to, credit.val)]

\* main.rs:48-53
TokenContract_transfer(from, to, amount) ==
    /\ Running
    /\ LET updated == update_balances(from, to, amount)
       IN  IF balance_of(from) < amount
           THEN TokenErr("transfer", "InsufficientBalance")
           ELSE IF updated.err # "none"
           THEN TokenResult("transfer", updated.map, allowances, total_supply,
                            "Panic", "none")
           ELSE TokenResult("transfer", updated.map, allowances, total_supply,
                            "none", "Transfer")

\* main.rs:55-68
TokenContract_transfer_from(from, to, spender, amount) ==
    /\ Running
    /\ LET updated == update_balances(from, to, amount)
           allowed == u64_sub(allowance(from, spender), amount)
       IN  IF balance_of(from) < amount
           THEN TokenErr("transfer_from", "InsufficientBalance")
           ELSE IF allowance(from, spender) < amount
           THEN TokenErr("transfer_from", "InsufficientAllowance")
           ELSE IF updated.err # "none"
           THEN TokenResult("transfer_from", updated.map, allowances,
                            total_supply, "Panic", "none")
           ELSE IF <<from, spender>> \notin DOMAIN allowances
           THEN TokenResult("transfer_from", updated.map, allowances,
                            total_supply, "Panic", "none")
           ELSE TokenResult("transfer_from", updated.map,
                            Put(allowances, <<from, spender>>, allowed.val),
                            total_supply, "none", "TransferFrom")

\* main.rs:70-77
TokenContract_approve(holder, spender, amount) ==
    /\ Running
    /\ TokenResult("approve", balances,
                   Put(allowances, <<holder, spender>>, amount),
                   total_supply, "none", "Approval")

\* main.rs:79-87
TokenContract_mint(to, amount) ==
    /\ Running
    /\ LET credit == u64_add(Get(balances, to), amount)
           supply == u64_add(total_supply, amount)
       IN  IF to # token_owner
           THEN TokenErr("mint", "OnlyOwner")
           ELSE IF credit.err # "none"
           THEN TokenResult("mint", balances, allowances, total_supply,
                            "Panic", "none")
           ELSE IF supply.err # "none"
           THEN TokenResult("mint", Put(balances, to, credit.val), allowances,
                            total_supply, "Panic", "none")
           ELSE TokenResult("mint", Put(balances, to, credit.val), allowances,
                            supply.val, "none", "Mint")

\* main.rs:89-95
TokenContract_burn(from, amount) ==
    /\ Running
    /\ LET debit == u64_sub(Get(balances, from), amount)
           supply == u64_sub(total_supply, amount)
       IN  IF balance_of(from) < amount
           THEN TokenErr("burn", "InsufficientBalance")
           ELSE IF from \notin DOMAIN balances
           THEN TokenResult("burn", balances, allowances, total_supply,
                            "Panic", "none")
           ELSE IF supply.err # "none"
           THEN TokenResult("burn", Put(balances, from, debit.val), allowances,
                            total_supply, "Panic", "none")
           ELSE TokenResult("burn", Put(balances, from, debit.val), allowances,
                            supply.val, "none", "Burn")

TokenInit ==
    /\ DexNotDeployed
    /\ MMNotDeployed
    /\ BettingNotDeployed
    /\ EscrowNotDeployed
    /\ FarmingNotDeployed
    /\ VotingNotDeployed
    /\ \E initial_supply \in Amounts, checks \in BOOLEAN :
           TokenContract_new(initial_supply, checks)

TokenNext ==
    \/ \E from \in Holders, to \in Holders, amount \in Amounts :
           TokenContract_transfer(from, to, amount)
    \/ \E from \in Holders, to \in Holders, spender \in Spenders, amount \in Amounts :
           TokenContract_transfer_from(from, to, spender, amount)
    \/ \E holder \in Holders, spender \in Spenders, amount \in Amounts :
           TokenContract_approve(holder, spender, amount)
    \/ \E to \in Holders, amount \in Amounts :
           TokenContract_mint(to, amount)
    \/ \E from \in Holders, amount \in Amounts :
           TokenContract_burn(from, amount)

SpecToken == TokenInit /\ [][TokenNext]_vars

\* ---------------------------------------------------------------------------
\* TokenContract: properties
\* ---------------------------------------------------------------------------

\* C27 (as claimed): after any sequence of transfer, transfer_from, approve,
\* mint and burn, total_supply equals the sum of all account balances, and
\* an operation that returned Err left balances, allowances and
\* total_supply unchanged.  States in which the program has panicked are
\* left aside.
C27_SupplyIsSumOfBalances ==
    [][/\ token_call'.err # "Panic"
              => total_supply' = SumOver(balances', DOMAIN balances')
       /\ token_call'.err \notin {"none", "Panic"}
              => UNCHANGED <<balances, allowances, total_supply>>
      ]_tokenvars

====
